---- MODULE Spec2Model ----
(***************************************************************************)
(* A model of the asynchronous NAT-PMP client (src/asynchronous.rs):       *)
(* one NatpmpAsync session over an AsyncUdpSocket transport.  The session  *)
(* encodes requests, hands them to the transport, and reads one reply with *)
(* a bounded receive-retry loop.                                           *)
(*                                                                         *)
(* Bytes are numbers 0..255; a buffer is a sequence of bytes, so byte k of *)
(* the source (0-based) is element k+1 here.  TLC integers are 32-bit      *)
(* signed, so the u32 fields are exercised on values below 2^31 (in either *)
(* byte order).                                                            *)
(***************************************************************************)
EXTENDS Integers, Sequences, FiniteSets, TLC

VARIABLES
    gateway,       \* NatpmpAsync.gateway
    littleEndian,  \* byte order of the host the client was built for
    pc,            \* "idle", "recv" (suspended in s.recv().await), "done"
    op,            \* the method of the session that is running or has returned
    args,          \* the arguments of that call
    buf,           \* read_response_or_retry: the 16-byte receive buffer
    retries,       \* read_response_or_retry: the attempt counter
    result,        \* the value the call returned
    wire,          \* transport: the bytes the call handed to send
    sendCalls,     \* transport: invocations of send made by the call
    sendOutcome,   \* transport: what send answered
    recvCalls,     \* transport: invocations of recv made by the call
    recvOk,        \* transport: a recv of the call returned Ok
    received       \* transport: the datagram that recv delivered

\* the constructor, as the caller and the socket see it
VARIABLES
    configured,    \* the gateway address the session was constructed with
    bindCalls,     \* UdpSocket::bind invocations
    connectCalls,  \* connect invocations on the socket
    peer,          \* the address connect was invoked with
    answers        \* what get_default_gateway, bind and connect answered the
                   \* constructor, until the first call on the session

\* the calls made on the session so far, as the caller and the transport see
\* them
VARIABLES
    lastReq,         \* the request the last send_* call encoded
    callerSends,     \* send_* calls made by the caller
    transportSends,  \* invocations of the transport's send
    calls,           \* calls that ended before the current one
    exhaustedCalls,  \* of these, reads that ran out of attempts
    cancelledCalls,  \* of these, reads that were dropped while suspended
    priorFailures    \* failed receives of the latest read among these

callVars == << op, args, buf, retries, result, wire, sendCalls, sendOutcome,
               recvCalls, recvOk, received >>

ctorVars == << configured, bindCalls, connectCalls, peer, answers >>

histVars == << lastReq, callerSends, transportSends, calls, exhaustedCalls,
               cancelledCalls, priorFailures >>

vars == << gateway, littleEndian, pc, op, args, buf, retries, result,
           wire, sendCalls, sendOutcome, recvCalls, recvOk, received,
           configured, bindCalls, connectCalls, peer, answers,
           lastReq, callerSends, transportSends, calls, exhaustedCalls,
           cancelledCalls, priorFailures >>

----------------------------------------------------------------------------
(* Program constants and input sets *)

NATPMP_MAX_ATTEMPS == 9

NATPMP_PORT == 5351

\* the number of calls made on one session
MaxCalls == 3

BufLen == 16

Gateways == { <<192, 168, 0, 1>>, <<10, 0, 0, 138>> }

Protocols == { "UDP", "TCP" }

Ports == { 0, 4660, 65280, 65535 }

Lifetimes == { 0, 3600, 16909060, 2147483647 }

\* what AsyncUdpSocket::send may return: Err(_) or Ok(n)
SendOutcomes == { [ok |-> FALSE, n |-> 0] }
                  \cup { [ok |-> TRUE, n |-> k] : k \in { 0, 1, 2, 11, 12, 13 } }

\* the datagrams the gateway may answer with.  A header is a version, an
\* opcode and the two result-code bytes; a payload is bytes 4..15 of a reply.
Versions == { 0, 1, 255 }

Opcodes == { 0, 127, 128, 129, 130, 131, 255 }

ResultBytes == { <<0, 0>>, <<0, 1>>, <<0, 2>>, <<0, 3>>, <<0, 4>>, <<0, 5>>,
                 <<0, 6>>, <<1, 0>>, <<255, 255>> }

Payloads == { <<1, 2, 3, 4, 5, 6, 7, 8, 9, 10, 11, 12>>,
              <<127, 255, 128, 126, 18, 52, 255, 0, 0, 0, 14, 16>> }

Headers == { <<v, o>> \o r : v \in Versions, o \in Opcodes, r \in ResultBytes }

SuccessHeaders == { <<0, o, 0, 0>> : o \in { 128, 129, 130 } }

\* every header with every payload at full length, every header cut to any
\* length, and the successful replies cut to any length 0..16
Datagrams ==
    { h \o p : h \in Headers, p \in Payloads }
    \cup { SubSeq(h, 1, n) : h \in Headers, n \in 0..4 }
    \cup { SubSeq(h \o p, 1, n) : h \in SuccessHeaders, p \in Payloads, n \in 0..BufLen }

\* the inputs of the sessions of several calls
SessionPorts == { 4660 }

SessionLifetimes == { 3600 }

SessionSendOutcomes ==
    { [ok |-> FALSE, n |-> 0], [ok |-> TRUE, n |-> 2], [ok |-> TRUE, n |-> 12] }

SessionDatagrams ==
    { << >>,
      <<1, 128, 0, 0>>,
      <<0, 129, 0, 2, 1, 2, 3, 4, 5, 6, 7, 8, 9, 10, 11, 12>>,
      <<0, 128, 0, 0, 127, 255, 128, 126, 18, 52, 255, 0>>,
      <<0, 129, 0, 0, 127, 255, 128, 126, 18, 52, 255, 0, 0, 0, 14, 16>>,
      <<0, 130, 0, 0, 127, 255, 128, 126, 18, 52, 255, 0, 0, 0, 14, 16>> }

\* what get_default_gateway may return
Discoveries ==
    { [ok |-> FALSE, gateway |-> << >>, err |-> "NATPMP_ERR_CANNOTGETGATEWAY"] }
    \cup { [ok |-> TRUE, gateway |-> g, err |-> "none"] : g \in Gateways }

----------------------------------------------------------------------------
(* Values *)

NoGateway == << >>

NoPeer == [addr |-> << >>, port |-> 0]

\* "none": not asked
NoAnswers == [discovery |-> "none", bind |-> "none", connect |-> "none"]

Answer(ok) == IF ok THEN "ok" ELSE "err"

\* Ok(n) of the constructors: the session exists
SessionOk == [tag |-> "Session"]

Err(e) == [tag |-> "Err", err |-> e]

OkUnit == [tag |-> "Ok"]

NoResult == [tag |-> "None"]

NoOutcome == [ok |-> FALSE, n |-> -1]

NoArgs == [protocol |-> "none", private_port |-> 0, public_port |-> 0, lifetime |-> 0]

Zeros(n) == [i \in 1..n |-> 0]

----------------------------------------------------------------------------
(* Byte-level helpers *)

\* &buf[a..b] of the source: bytes a .. b-1, 0-based
Slice(b, from, to) == SubSeq(b, from + 1, to)

RECURSIVE Pow256(_)
Pow256(k) == IF k = 0 THEN 1 ELSE 256 * Pow256(k - 1)

\* the unsigned value of a byte sequence, first byte least significant
RECURSIVE ValueLE(_)
ValueLE(bs) == IF bs = << >> THEN 0 ELSE Head(bs) + 256 * ValueLE(Tail(bs))

\* the unsigned value of a byte sequence, first byte most significant
RECURSIVE ValueBE(_)
ValueBE(bs) ==
    IF bs = << >> THEN 0
    ELSE Head(bs) * Pow256(Len(bs) - 1) + ValueBE(Tail(bs))

\* the w bytes of x, least significant first
BytesLE(x, w) == [i \in 1..w |-> (x \div Pow256(i - 1)) % 256]

Reverse(s) == [i \in 1..Len(s) |-> s[Len(s) + 1 - i]]

\* crate::convert_to::<T>: the bytes reinterpreted as a T in the host's order
convert_to(bs, le) == IF le THEN ValueLE(bs) ELSE ValueBE(bs)

\* uN::swap_bytes
swap_bytes(x, w) == ValueLE(Reverse(BytesLE(x, w)))

\* uN::from_be: a no-op on a big-endian host, a byte swap on a little-endian one
from_be(x, w, le) == IF le THEN swap_bytes(x, w) ELSE x

\* the octets taken least significant first
Ipv4Addr_fromLE(x) == BytesLE(x, 4)

\* Ipv4Addr::from(u32): the octets are the u32's bytes, most significant first
Ipv4Addr_from(x) == Reverse(BytesLE(x, 4))

\* Duration::from_secs(u64::from(lifetime))
Duration_from_secs(s) == [secs |-> s, nanos |-> 0]

----------------------------------------------------------------------------
(* Request encoding: the buffers built by the send_* methods *)

\* send_public_address_request: let mut request = [0_u8; 2]
PublicAddressRequest == Zeros(2)

\* request[1] = match protocol { Protocol::UDP => 1, _ => 2 }
RequestOpcode(protocol) == IF protocol = "UDP" THEN 1 ELSE 2

\* the ports written least significant byte first
PortMappingRequestPortsLE(protocol, private_port, public_port, lifetime) ==
    [ Zeros(12) EXCEPT
        ![2]  = RequestOpcode(protocol),
        ![5]  = private_port % 256,
        ![6]  = (private_port \div 256) % 256,
        ![7]  = public_port % 256,
        ![8]  = (public_port \div 256) % 256,
        ![9]  = (lifetime \div 16777216) % 256,
        ![10] = (lifetime \div 65536) % 256,
        ![11] = (lifetime \div 256) % 256,
        ![12] = lifetime % 256 ]

\* the lifetime written as a 16-bit value
PortMappingRequestLifetime16(protocol, private_port, public_port, lifetime) ==
    [ Zeros(12) EXCEPT
        ![2]  = RequestOpcode(protocol),
        ![5]  = (private_port \div 256) % 256,
        ![6]  = private_port % 256,
        ![7]  = (public_port \div 256) % 256,
        ![8]  = public_port % 256,
        ![11] = (lifetime \div 256) % 256,
        ![12] = lifetime % 256 ]

\* send_port_mapping_request: the 12 bytes of the request
PortMappingRequest(protocol, private_port, public_port, lifetime) ==
    [ Zeros(12) EXCEPT
        ![2]  = RequestOpcode(protocol),
        ![3]  = 0,
        ![4]  = 0,
        ![5]  = (private_port \div 256) % 256,
        ![6]  = private_port % 256,
        ![7]  = (public_port \div 256) % 256,
        ![8]  = public_port % 256,
        ![9]  = (lifetime \div 16777216) % 256,
        ![10] = (lifetime \div 65536) % 256,
        ![11] = (lifetime \div 256) % 256,
        ![12] = lifetime % 256 ]

\* the byte count the transport reports is not looked at
SendResultAnyCount(outcome, request) ==
    IF ~outcome.ok THEN Err("NATPMP_ERR_NETWORKFAILURE") ELSE OkUnit

\* only a short write is an error
SendResultShortOnly(outcome, request) ==
    IF ~outcome.ok THEN Err("NATPMP_ERR_NETWORKFAILURE")
    ELSE IF outcome.n < Len(request) THEN Err("NATPMP_ERR_NETWORKFAILURE")
    ELSE OkUnit

\* the tail of both send_* methods: map the transport's answer to the result
SendResult(outcome, request) ==
    IF ~outcome.ok THEN Err("NATPMP_ERR_NETWORKFAILURE")
    ELSE IF outcome.n # Len(request) THEN Err("NATPMP_ERR_NETWORKFAILURE")
    ELSE OkUnit

----------------------------------------------------------------------------
(* Response decoding: the Ok(n) arm of read_response_or_retry *)

\* if buf[0] != 0 { return Err(UNSUPPORTEDVERSION) }
VersionOk(b) == b[1] = 0

\* the upper bound of the opcode range off by one
OpcodeOkWide(b) == ~(b[2] < 128 \/ b[2] > 131)

\* if buf[1] < 128 || buf[1] > 130 { return Err(UNSUPPORTEDOPCODE) }
OpcodeOk(b) == ~(b[2] < 128 \/ b[2] > 130)

\* the result code read in the host's order, without from_be
ResultCodeNative(b, le) == convert_to(Slice(b, 2, 4), le)

\* let resultcode = u16::from_be(convert_to(&buf[2..4]))
ResultCode(b, le) == from_be(convert_to(Slice(b, 2, 4), le), 2, le)

\* match resultcode { 1 => ..., _ => UNDEFINEDERROR }
ResultError(resultcode) ==
    CASE resultcode = 1 -> "NATPMP_ERR_UNSUPPORTEDVERSION"
      [] resultcode = 2 -> "NATPMP_ERR_NOTAUTHORIZED"
      [] resultcode = 3 -> "NATPMP_ERR_NETWORKFAILURE"
      [] resultcode = 4 -> "NATPMP_ERR_OUTOFRESOURCES"
      [] resultcode = 5 -> "NATPMP_ERR_UNSUPPORTEDOPCODE"
      [] OTHER -> "NATPMP_ERR_UNDEFINEDERROR"

\* let rsp_type = buf[1] & 0x7f
RspType(b) == b[2] % 128

\* the two mapping kinds exchanged
MappingTagSwapped(rsp_type) == IF rsp_type = 1 THEN "TCP" ELSE "UDP"

\* if rsp_type == 1 { Response::UDP(m) } else { Response::TCP(m) }
MappingTag(rsp_type) == IF rsp_type = 1 THEN "UDP" ELSE "TCP"

\* the Response built once the result code is 0
ParseResponse(b, le) ==
    LET epoch == from_be(convert_to(Slice(b, 4, 8), le), 4, le)
        rsp_type == RspType(b)
    IN  IF rsp_type = 0
        THEN [ tag |-> "Gateway",
               epoch |-> epoch,
               public_address |->
                   Ipv4Addr_from(from_be(convert_to(Slice(b, 8, 12), le), 4, le)) ]
        ELSE LET private_port == from_be(convert_to(Slice(b, 8, 10), le), 2, le)
                 public_port == from_be(convert_to(Slice(b, 10, 12), le), 2, le)
                 lifetime == from_be(convert_to(Slice(b, 12, 16), le), 4, le)
             IN  [ tag |-> MappingTag(rsp_type),
                   epoch |-> epoch,
                   private_port |-> private_port,
                   public_port |-> public_port,
                   lifetime |-> Duration_from_secs(lifetime) ]

\* the opcode checked before the version
DecodeOpcodeFirst(b, le) ==
    IF ~OpcodeOk(b) THEN Err("NATPMP_ERR_UNSUPPORTEDOPCODE")
    ELSE IF ~VersionOk(b) THEN Err("NATPMP_ERR_UNSUPPORTEDVERSION")
    ELSE IF ResultCode(b, le) # 0 THEN Err(ResultError(ResultCode(b, le)))
    ELSE ParseResponse(b, le)

\* what the Ok(n) arm returns for the buffer
Decode(b, le) ==
    IF ~VersionOk(b) THEN Err("NATPMP_ERR_UNSUPPORTEDVERSION")
    ELSE IF ~OpcodeOk(b) THEN Err("NATPMP_ERR_UNSUPPORTEDOPCODE")
    ELSE IF ResultCode(b, le) # 0 THEN Err(ResultError(ResultCode(b, le)))
    ELSE ParseResponse(b, le)

----------------------------------------------------------------------------
(* The session *)

Init ==
    /\ gateway = NoGateway
    /\ littleEndian \in BOOLEAN
    /\ pc = "unbuilt"
    /\ op = "none"
    /\ args = NoArgs
    /\ buf = Zeros(BufLen)
    /\ retries = 0
    /\ result = NoResult
    /\ wire = << >>
    /\ sendCalls = 0
    /\ sendOutcome = NoOutcome
    /\ recvCalls = 0
    /\ recvOk = FALSE
    /\ received = << >>
    /\ configured = NoGateway
    /\ bindCalls = 0
    /\ connectCalls = 0
    /\ peer = NoPeer
    /\ answers = NoAnswers
    /\ lastReq = "none"
    /\ callerSends = 0
    /\ transportSends = 0
    /\ calls = 0
    /\ exhaustedCalls = 0
    /\ cancelledCalls = 0
    /\ priorFailures = 0

\* new_natpmp_async_with(s, gateway): NatpmpAsync { s, gateway }
new_natpmp_async_with(g) == g

\* a failed connect reported like a failed bind
ConstructWithOneError(g, bindOk, connectOk, discovery) ==
    /\ configured' = g
    /\ bindCalls' = bindCalls + 1
    /\ IF ~bindOk
       THEN /\ result' = Err("NATPMP_ERR_SOCKETERROR")
            /\ pc' = "failed"
            /\ answers' = [discovery |-> discovery, bind |-> "err", connect |-> "none"]
            /\ UNCHANGED << gateway, connectCalls, peer >>
       ELSE /\ connectCalls' = connectCalls + 1
            /\ peer' = [addr |-> g, port |-> NATPMP_PORT]
            /\ answers' = [discovery |-> discovery, bind |-> "ok",
                           connect |-> Answer(connectOk)]
            /\ IF ~connectOk
               THEN /\ result' = Err("NATPMP_ERR_SOCKETERROR")
                    /\ pc' = "failed"
                    /\ UNCHANGED gateway
               ELSE /\ gateway' = new_natpmp_async_with(g)
                    /\ result' = SessionOk
                    /\ pc' = "idle"

\* the body of new_async_std_natpmp_with: bind, connect to the gateway on
\* NATPMP_PORT, wrap the socket; bindOk and connectOk are the socket's answers
\* and discovery is what get_default_gateway answered before, if it was asked
ConstructWith(g, bindOk, connectOk, discovery) ==
    /\ configured' = g
    /\ bindCalls' = bindCalls + 1
    /\ IF ~bindOk
       THEN /\ result' = Err("NATPMP_ERR_SOCKETERROR")
            /\ pc' = "failed"
            /\ answers' = [discovery |-> discovery, bind |-> "err", connect |-> "none"]
            /\ UNCHANGED << gateway, connectCalls, peer >>
       ELSE /\ connectCalls' = connectCalls + 1
            /\ peer' = [addr |-> g, port |-> NATPMP_PORT]
            /\ answers' = [discovery |-> discovery, bind |-> "ok",
                           connect |-> Answer(connectOk)]
            /\ IF ~connectOk
               THEN /\ result' = Err("NATPMP_ERR_CONNECTERR")
                    /\ pc' = "failed"
                    /\ UNCHANGED gateway
               ELSE /\ gateway' = new_natpmp_async_with(g)
                    /\ result' = SessionOk
                    /\ pc' = "idle"

\* new_async_std_natpmp_with(gateway)
NewAsyncStdNatpmpWith(g, bindOk, connectOk) ==
    /\ pc = "unbuilt"
    /\ op' = "new_async_std_natpmp_with"
    /\ ConstructWith(g, bindOk, connectOk, "none")
    /\ UNCHANGED << littleEndian, args, buf, retries, wire, sendCalls, sendOutcome,
                    recvCalls, recvOk, received >>
    /\ UNCHANGED histVars

\* new_async_std_natpmp(): get_default_gateway()? and then the above
NewAsyncStdNatpmp(discovered, bindOk, connectOk) ==
    /\ pc = "unbuilt"
    /\ op' = "new_async_std_natpmp"
    /\ IF ~discovered.ok
       THEN /\ result' = Err(discovered.err)
            /\ pc' = "failed"
            /\ answers' = [discovery |-> "err", bind |-> "none", connect |-> "none"]
            /\ UNCHANGED << gateway, configured, bindCalls, connectCalls, peer >>
       ELSE ConstructWith(discovered.gateway, bindOk, connectOk, "ok")
    /\ UNCHANGED << littleEndian, args, buf, retries, wire, sendCalls, sendOutcome,
                    recvCalls, recvOk, received >>
    /\ UNCHANGED histVars

\* send_public_address_request, with the transport's answer to the one send
SendPublicAddressRequest(outcome) ==
    /\ pc = "idle"
    /\ op' = "send_public_address_request"
    /\ args' = NoArgs
    /\ wire' = PublicAddressRequest
    /\ sendCalls' = sendCalls + 1
    /\ sendOutcome' = outcome
    /\ result' = SendResult(outcome, PublicAddressRequest)
    /\ pc' = "done"
    /\ lastReq' = "public_address"
    /\ callerSends' = callerSends + 1
    /\ transportSends' = transportSends + 1
    /\ UNCHANGED << gateway, littleEndian, buf, retries, recvCalls, recvOk, received >>
    /\ answers' = NoAnswers
    /\ UNCHANGED << configured, bindCalls, connectCalls, peer >>
    /\ UNCHANGED << calls, exhaustedCalls, cancelledCalls, priorFailures >>

\* send_port_mapping_request, with the transport's answer to the one send
SendPortMappingRequest(protocol, private_port, public_port, lifetime, outcome) ==
    LET request == PortMappingRequest(protocol, private_port, public_port, lifetime)
    IN  /\ pc = "idle"
        /\ op' = "send_port_mapping_request"
        /\ args' = [ protocol |-> protocol, private_port |-> private_port,
                     public_port |-> public_port, lifetime |-> lifetime ]
        /\ wire' = request
        /\ sendCalls' = sendCalls + 1
        /\ sendOutcome' = outcome
        /\ result' = SendResult(outcome, request)
        /\ pc' = "done"
        /\ lastReq' = protocol
        /\ callerSends' = callerSends + 1
        /\ transportSends' = transportSends + 1
        /\ UNCHANGED << gateway, littleEndian, buf, retries, recvCalls, recvOk,
                        received >>
        /\ answers' = NoAnswers
        /\ UNCHANGED << configured, bindCalls, connectCalls, peer >>
        /\ UNCHANGED << calls, exhaustedCalls, cancelledCalls, priorFailures >>

\* the loop bound off by one
LoopCondInclusive(r) == r <= NATPMP_MAX_ATTEMPS

\* while retries < NATPMP_MAX_ATTEMPS
LoopCond(r) == r < NATPMP_MAX_ATTEMPS

\* the head of the loop with the counter at r: suspend in recv, or fall out of
\* the loop and return Err(NATPMP_ERR_RECVFROM)
LoopHead(r) ==
    IF LoopCond(r)
    THEN pc' = "recv" /\ result' = result
    ELSE pc' = "done" /\ result' = Err("NATPMP_ERR_RECVFROM")

\* the counter as a field of the session: it starts where the last read left it
ReadStartCarried ==
    /\ pc = "idle"
    /\ op' = "read_response_or_retry"
    /\ args' = NoArgs
    /\ buf' = Zeros(BufLen)
    /\ retries' = priorFailures
    /\ LoopHead(priorFailures)
    /\ UNCHANGED << gateway, littleEndian, wire, sendCalls, sendOutcome, recvCalls,
                    recvOk, received >>
    /\ answers' = NoAnswers
    /\ UNCHANGED << configured, bindCalls, connectCalls, peer >>
    /\ UNCHANGED histVars

\* read_response_or_retry is called: the buffer and the counter are set up
ReadStart ==
    /\ pc = "idle"
    /\ op' = "read_response_or_retry"
    /\ args' = NoArgs
    /\ buf' = Zeros(BufLen)
    /\ retries' = 0
    /\ LoopHead(0)
    /\ UNCHANGED << gateway, littleEndian, wire, sendCalls, sendOutcome, recvCalls,
                    recvOk, received >>
    /\ answers' = NoAnswers
    /\ UNCHANGED << configured, bindCalls, connectCalls, peer >>
    /\ UNCHANGED histVars

\* a failed receive answered by sending the last request again
RecvErrRetransmits ==
    /\ pc = "recv"
    /\ recvCalls' = recvCalls + 1
    /\ retries' = retries + 1
    /\ LoopHead(retries + 1)
    /\ transportSends' = transportSends + 1
    /\ UNCHANGED << gateway, littleEndian, op, args, buf, wire, sendCalls,
                    sendOutcome, recvOk, received >>
    /\ UNCHANGED ctorVars
    /\ UNCHANGED << lastReq, callerSends, calls, exhaustedCalls, cancelledCalls,
                    priorFailures >>

\* self.s.recv(&mut buf).await returns Err(_)
RecvErr ==
    /\ pc = "recv"
    /\ recvCalls' = recvCalls + 1
    /\ retries' = retries + 1
    /\ LoopHead(retries + 1)
    /\ UNCHANGED << gateway, littleEndian, op, args, buf, wire, sendCalls,
                    sendOutcome, recvOk, received >>
    /\ UNCHANGED ctorVars
    /\ UNCHANGED histVars

\* the transport writes the datagram over the start of the buffer
Fill(b, d) == [i \in 1..Len(b) |-> IF i <= Len(d) THEN d[i] ELSE b[i]]

\* a loop that treats a datagram that decodes to an error like a failed
\* receive: it counts an attempt and receives again
RecvOkRetryOnError(d) ==
    LET r == Decode(Fill(buf, d), littleEndian)
    IN  /\ pc = "recv"
        /\ recvCalls' = recvCalls + 1
        /\ recvOk' = TRUE
        /\ received' = d
        /\ buf' = Fill(buf, d)
        /\ IF r.tag = "Err"
           THEN retries' = retries + 1 /\ LoopHead(retries + 1)
           ELSE retries' = retries /\ result' = r /\ pc' = "done"
        /\ UNCHANGED << gateway, littleEndian, op, args, wire, sendCalls,
                        sendOutcome >>
        /\ UNCHANGED ctorVars
        /\ UNCHANGED histVars

\* a receive of zero bytes reported as a failure to receive
RecvOkEmptyIsRecvFrom(d) ==
    /\ pc = "recv"
    /\ recvCalls' = recvCalls + 1
    /\ recvOk' = TRUE
    /\ received' = d
    /\ buf' = Fill(buf, d)
    /\ result' = IF Len(d) = 0 THEN Err("NATPMP_ERR_RECVFROM")
                 ELSE Decode(Fill(buf, d), littleEndian)
    /\ pc' = "done"
    /\ UNCHANGED << gateway, littleEndian, op, args, retries, wire, sendCalls,
                    sendOutcome >>
    /\ UNCHANGED ctorVars
    /\ UNCHANGED histVars

\* a session that takes the address of a public-address reply for its gateway
RecvOkStoresAddress(d) ==
    LET r == Decode(Fill(buf, d), littleEndian)
    IN  /\ pc = "recv"
        /\ recvCalls' = recvCalls + 1
        /\ recvOk' = TRUE
        /\ received' = d
        /\ buf' = Fill(buf, d)
        /\ result' = r
        /\ gateway' = IF r.tag = "Gateway" THEN r.public_address ELSE gateway
        /\ pc' = "done"
        /\ UNCHANGED << littleEndian, op, args, retries, wire, sendCalls,
                        sendOutcome >>
        /\ UNCHANGED ctorVars
        /\ UNCHANGED histVars

\* a datagram shorter than the shortest reply reported as an error of its own
RecvOkChecksLength(d) ==
    /\ pc = "recv"
    /\ recvCalls' = recvCalls + 1
    /\ recvOk' = TRUE
    /\ received' = d
    /\ buf' = Fill(buf, d)
    /\ result' = IF Len(d) < 12 THEN Err("NATPMP_ERR_UNDEFINEDERROR")
                 ELSE Decode(Fill(buf, d), littleEndian)
    /\ pc' = "done"
    /\ UNCHANGED << gateway, littleEndian, op, args, retries, wire, sendCalls,
                    sendOutcome >>
    /\ UNCHANGED ctorVars
    /\ UNCHANGED histVars

\* a reply whose kind is not that of the last request rejected
RecvOkMatchesRequest(d) ==
    LET r == Decode(Fill(buf, d), littleEndian)
        expected == IF lastReq = "public_address" THEN "Gateway" ELSE lastReq
    IN  /\ pc = "recv"
        /\ recvCalls' = recvCalls + 1
        /\ recvOk' = TRUE
        /\ received' = d
        /\ buf' = Fill(buf, d)
        /\ result' = IF r.tag # "Err" /\ r.tag # expected
                     THEN Err("NATPMP_ERR_UNSUPPORTEDOPCODE") ELSE r
        /\ pc' = "done"
        /\ UNCHANGED << gateway, littleEndian, op, args, retries, wire, sendCalls,
                        sendOutcome >>
        /\ UNCHANGED ctorVars
        /\ UNCHANGED histVars

\* self.s.recv(&mut buf).await returns Ok(n) with datagram d in the buffer
RecvOk(d) ==
    /\ pc = "recv"
    /\ recvCalls' = recvCalls + 1
    /\ recvOk' = TRUE
    /\ received' = d
    /\ buf' = Fill(buf, d)
    /\ result' = Decode(Fill(buf, d), littleEndian)
    /\ pc' = "done"
    /\ UNCHANGED << gateway, littleEndian, op, args, retries, wire, sendCalls,
                    sendOutcome >>
    /\ UNCHANGED ctorVars
    /\ UNCHANGED histVars

\* the caller drops the future of read_response_or_retry while it is suspended
\* in recv: the call ends without a result
Cancel ==
    /\ pc = "recv"
    /\ pc' = "cancelled"
    /\ UNCHANGED << gateway, littleEndian >>
    /\ UNCHANGED callVars
    /\ UNCHANGED ctorVars
    /\ UNCHANGED histVars

\* the locals of a call that ended are gone
CallEnds ==
    /\ pc \in { "done", "cancelled" }
    /\ pc' = "idle"
    /\ op' = "none"
    /\ args' = NoArgs
    /\ buf' = Zeros(BufLen)
    /\ retries' = 0
    /\ result' = NoResult
    /\ wire' = << >>
    /\ sendCalls' = 0
    /\ sendOutcome' = NoOutcome
    /\ recvCalls' = 0
    /\ recvOk' = FALSE
    /\ received' = << >>
    /\ UNCHANGED << gateway, littleEndian >>
    /\ UNCHANGED ctorVars

\* the caller takes the result and what was seen of the session so far is
\* forgotten: each call is looked at on its own
Return ==
    /\ CallEnds
    /\ lastReq' = "none"
    /\ callerSends' = 0
    /\ transportSends' = 0
    /\ calls' = 0
    /\ exhaustedCalls' = 0
    /\ cancelledCalls' = 0
    /\ priorFailures' = 0

\* the caller takes the result and goes on to another call on the session
NextCall ==
    /\ CallEnds
    /\ calls + 1 < MaxCalls
    /\ calls' = calls + 1
    /\ exhaustedCalls' =
          IF op = "read_response_or_retry" /\ pc = "done" /\ ~recvOk
          THEN exhaustedCalls + 1 ELSE exhaustedCalls
    /\ cancelledCalls' = IF pc = "cancelled" THEN cancelledCalls + 1 ELSE cancelledCalls
    /\ priorFailures' = IF op = "read_response_or_retry" THEN retries ELSE priorFailures
    /\ UNCHANGED << lastReq, callerSends, transportSends >>

\* the constructors
Construct ==
    \/ \E g \in Gateways, bindOk \in BOOLEAN, connectOk \in BOOLEAN :
          NewAsyncStdNatpmpWith(g, bindOk, connectOk)
    \/ \E discovered \in Discoveries, bindOk \in BOOLEAN, connectOk \in BOOLEAN :
          NewAsyncStdNatpmp(discovered, bindOk, connectOk)

\* one call at a time, over all the inputs
Next ==
    \/ Construct
    \/ \E outcome \in SendOutcomes : SendPublicAddressRequest(outcome)
    \/ \E protocol \in Protocols, private_port \in Ports, public_port \in Ports,
          lifetime \in Lifetimes, outcome \in SendOutcomes :
            SendPortMappingRequest(protocol, private_port, public_port, lifetime,
                                   outcome)
    \/ ReadStart
    \/ RecvErr
    \/ \E d \in Datagrams : RecvOk(d)
    \/ Cancel
    \/ Return

Spec == Init /\ [][Next]_vars

\* sessions of up to MaxCalls calls, over a few inputs
NextSession ==
    \/ Construct
    \/ \E outcome \in SessionSendOutcomes : SendPublicAddressRequest(outcome)
    \/ \E protocol \in Protocols, private_port \in SessionPorts,
          public_port \in SessionPorts, lifetime \in SessionLifetimes,
          outcome \in SessionSendOutcomes :
            SendPortMappingRequest(protocol, private_port, public_port, lifetime,
                                   outcome)
    \/ ReadStart
    \/ RecvErr
    \/ \E d \in SessionDatagrams : RecvOk(d)
    \/ Cancel
    \/ NextCall

SpecSession == Init /\ [][NextSession]_vars

TypeOK ==
    /\ gateway \in Gateways \cup { NoGateway }
    /\ littleEndian \in BOOLEAN
    /\ pc \in { "unbuilt", "failed", "idle", "recv", "done", "cancelled" }
    /\ retries \in 0..NATPMP_MAX_ATTEMPS
    /\ Len(buf) = BufLen
    /\ \A i \in 1..BufLen : buf[i] \in 0..255
    /\ SessionDatagrams \subseteq Datagrams

----------------------------------------------------------------------------
(* Properties *)

ReadReturned == pc = "done" /\ op = "read_response_or_retry"

\* the 16-bit and 32-bit big-endian values at 0-based offset k of a buffer
BE16(b, k) == b[k + 1] * 256 + b[k + 2]

BE32(b, k) == b[k + 1] * 16777216 + b[k + 2] * 65536 + b[k + 3] * 256 + b[k + 4]

\* C1: a call of read_response_or_retry never makes more than
\* NATPMP_MAX_ATTEMPS receives, and when it returns without any receive having
\* succeeded it has made exactly NATPMP_MAX_ATTEMPS receives and returns
\* NATPMP_ERR_RECVFROM.
C1_ExhaustedAttempts ==
    /\ recvCalls <= NATPMP_MAX_ATTEMPS
    /\ (ReadReturned /\ ~recvOk) =>
          /\ recvCalls = NATPMP_MAX_ATTEMPS
          /\ result = Err("NATPMP_ERR_RECVFROM")

C1_Witness ==
    /\ ReadReturned
    /\ ~recvOk
    /\ recvCalls = NATPMP_MAX_ATTEMPS
    /\ result = Err("NATPMP_ERR_RECVFROM")

\* C2: once a receive of the call has succeeded, on attempt k after k-1 failed
\* receives with k <= NATPMP_MAX_ATTEMPS, the call has returned (it is not
\* suspended in another receive), it made no receive after that one, and its
\* result is the decoding of that datagram in a zero-filled buffer, be it a
\* Response or an error.
C2_FirstDatagramDecides ==
    (op = "read_response_or_retry" /\ recvOk) =>
        /\ pc = "done"
        /\ recvCalls = retries + 1
        /\ recvCalls <= NATPMP_MAX_ATTEMPS
        /\ result = Decode(Fill(Zeros(BufLen), received), littleEndian)

\* a datagram that decodes to an error, received on the third attempt
C2_Witness ==
    /\ ReadReturned
    /\ recvOk
    /\ retries = 2
    /\ recvCalls = 3
    /\ result = Err("NATPMP_ERR_NOTAUTHORIZED")

\* C3: a received datagram whose version byte is not 0 yields
\* NATPMP_ERR_UNSUPPORTEDVERSION, whatever the opcode and result-code bytes.
C3_VersionFirst ==
    (ReadReturned /\ recvOk /\ buf[1] # 0) =>
        result = Err("NATPMP_ERR_UNSUPPORTEDVERSION")

\* version 1 with an opcode out of range and result code 2
C3_Witness ==
    /\ ReadReturned
    /\ recvOk
    /\ buf[1] = 1
    /\ buf[2] = 131
    /\ BE16(buf, 2) = 2
    /\ result = Err("NATPMP_ERR_UNSUPPORTEDVERSION")

\* C4 as stated: a received datagram whose opcode byte is outside [128,130]
\* yields NATPMP_ERR_UNSUPPORTEDOPCODE, whatever the other bytes.
C4_OpcodeAlways ==
    (ReadReturned /\ recvOk /\ (buf[2] < 128 \/ buf[2] > 130)) =>
        result = Err("NATPMP_ERR_UNSUPPORTEDOPCODE")

\* C4, amended: a received datagram whose version byte is 0 and whose opcode
\* byte is outside [128,130] yields NATPMP_ERR_UNSUPPORTEDOPCODE, whatever the
\* result-code bytes.
C4_OpcodeAfterVersion ==
    (ReadReturned /\ recvOk /\ buf[1] = 0 /\ (buf[2] < 128 \/ buf[2] > 130)) =>
        result = Err("NATPMP_ERR_UNSUPPORTEDOPCODE")

\* version 0, opcode 131 and result code 2
C4_Witness ==
    /\ ReadReturned
    /\ recvOk
    /\ buf[1] = 0
    /\ buf[2] = 131
    /\ BE16(buf, 2) = 2
    /\ result = Err("NATPMP_ERR_UNSUPPORTEDOPCODE")

\* the error the protocol assigns to a nonzero result code
C5_Expected(rc) ==
    IF rc = 1 THEN "NATPMP_ERR_UNSUPPORTEDVERSION"
    ELSE IF rc = 2 THEN "NATPMP_ERR_NOTAUTHORIZED"
    ELSE IF rc = 3 THEN "NATPMP_ERR_NETWORKFAILURE"
    ELSE IF rc = 4 THEN "NATPMP_ERR_OUTOFRESOURCES"
    ELSE IF rc = 5 THEN "NATPMP_ERR_UNSUPPORTEDOPCODE"
    ELSE "NATPMP_ERR_UNDEFINEDERROR"

\* C5: with version 0 and an opcode in [128,130], a nonzero big-endian result
\* code in bytes 2-3 makes the call fail with the error assigned to it: 1..5
\* to their errors, every other nonzero value to NATPMP_ERR_UNDEFINEDERROR.
C5_ResultCodeErrors ==
    (/\ ReadReturned
     /\ recvOk
     /\ buf[1] = 0
     /\ buf[2] \in 128..130
     /\ BE16(buf, 2) # 0) =>
        result = Err(C5_Expected(BE16(buf, 2)))

\* result code 1 in big-endian order, on a host of the other byte order
C5_Witness ==
    /\ ReadReturned
    /\ recvOk
    /\ littleEndian
    /\ buf[1] = 0
    /\ buf[2] = 129
    /\ BE16(buf, 2) = 1
    /\ result = Err("NATPMP_ERR_UNSUPPORTEDVERSION")

SendReturned ==
    /\ pc = "done"
    /\ op \in { "send_public_address_request", "send_port_mapping_request" }

\* C6: send_port_mapping_request hands the transport exactly 12 bytes: version
\* 0, opcode 1 for UDP and 2 for TCP, two zero bytes, then private_port,
\* public_port (16 bits) and lifetime (32 bits), each big-endian.
C6_MappingRequestLayout ==
    (pc = "done" /\ op = "send_port_mapping_request") =>
        /\ Len(wire) = 12
        /\ \A i \in 1..12 : wire[i] \in 0..255
        /\ wire[1] = 0
        /\ (args.protocol = "UDP" => wire[2] = 1)
        /\ (args.protocol = "TCP" => wire[2] = 2)
        /\ wire[3] = 0
        /\ wire[4] = 0
        /\ BE16(wire, 4) = args.private_port
        /\ BE16(wire, 6) = args.public_port
        /\ BE32(wire, 8) = args.lifetime

\* a TCP request whose fields have distinct bytes
C6_Witness ==
    /\ pc = "done"
    /\ op = "send_port_mapping_request"
    /\ args = [ protocol |-> "TCP", private_port |-> 4660, public_port |-> 65280,
                lifetime |-> 16909060 ]
    /\ wire = <<0, 2, 0, 0, 18, 52, 255, 0, 1, 2, 3, 4>>

\* C7: send_public_address_request hands the transport exactly the 2 bytes
\* 0, 0 and returns success exactly when the send succeeded and reported 2
\* bytes written.
C7_PublicAddressRequest ==
    (pc = "done" /\ op = "send_public_address_request") =>
        /\ wire = <<0, 0>>
        /\ (result = OkUnit) <=> (sendOutcome.ok /\ sendOutcome.n = 2)

\* the send succeeded but reported one byte
C7_Witness ==
    /\ pc = "done"
    /\ op = "send_public_address_request"
    /\ wire = <<0, 0>>
    /\ sendOutcome = [ok |-> TRUE, n |-> 1]
    /\ result = Err("NATPMP_ERR_NETWORKFAILURE")

\* C8: both send_* methods invoke the transport's send exactly once, and
\* return NATPMP_ERR_NETWORKFAILURE when the send failed or reported a byte
\* count different from the length of the request (2 or 12).
C8_SendOnceNoRetry ==
    SendReturned =>
        /\ sendCalls = 1
        /\ Len(wire) = (IF op = "send_public_address_request" THEN 2 ELSE 12)
        /\ (~sendOutcome.ok \/ sendOutcome.n # Len(wire)) =>
               result = Err("NATPMP_ERR_NETWORKFAILURE")

\* a mapping request of which the transport reports more than 12 bytes written
C8_Witness ==
    /\ pc = "done"
    /\ op = "send_port_mapping_request"
    /\ sendCalls = 1
    /\ sendOutcome = [ok |-> TRUE, n |-> 13]
    /\ result = Err("NATPMP_ERR_NETWORKFAILURE")

\* C9: a 12-byte reply with version 0, opcode 128 and result code 0 yields
\* Response::Gateway with the epoch of bytes 4-7 (big-endian) and the address
\* whose octets are bytes 8-11.
C9_GatewayReply ==
    (/\ ReadReturned
     /\ recvOk
     /\ Len(received) = 12
     /\ buf[1] = 0
     /\ buf[2] = 128
     /\ BE16(buf, 2) = 0) =>
        result = [ tag |-> "Gateway",
                   epoch |-> BE32(received, 4),
                   public_address |->
                       << received[9], received[10], received[11], received[12] >> ]

\* epoch 0x7FFF807E, address 18.52.255.0, on a little-endian host
C9_Witness ==
    /\ ReadReturned
    /\ recvOk
    /\ littleEndian
    /\ received = <<0, 128, 0, 0, 127, 255, 128, 126, 18, 52, 255, 0>>
    /\ result = [ tag |-> "Gateway", epoch |-> 2147451006,
                  public_address |-> <<18, 52, 255, 0>> ]

\* C10: a 16-byte reply with version 0 and result code 0 yields a UDP mapping
\* for opcode 129 and a TCP mapping for opcode 130, with epoch = bytes 4-7,
\* private_port = bytes 8-9, public_port = bytes 10-11 and lifetime = bytes
\* 12-15 seconds, all big-endian.
C10_MappingReply ==
    (/\ ReadReturned
     /\ recvOk
     /\ Len(received) = 16
     /\ buf[1] = 0
     /\ buf[2] \in { 129, 130 }
     /\ BE16(buf, 2) = 0) =>
        result = [ tag |-> IF received[2] = 129 THEN "UDP" ELSE "TCP",
                   epoch |-> BE32(received, 4),
                   private_port |-> BE16(received, 8),
                   public_port |-> BE16(received, 10),
                   lifetime |-> [secs |-> BE32(received, 12), nanos |-> 0] ]

\* a TCP mapping reply: ports 4660 and 65280, lifetime 3600 s
C10_Witness ==
    /\ ReadReturned
    /\ recvOk
    /\ littleEndian
    /\ received = <<0, 130, 0, 0, 127, 255, 128, 126, 18, 52, 255, 0, 0, 0, 14, 16>>
    /\ result = [ tag |-> "TCP", epoch |-> 2147451006, private_port |-> 4660,
                  public_port |-> 65280,
                  lifetime |-> [secs |-> 3600, nanos |-> 0] ]

\* C11: read_response_or_retry returns NATPMP_ERR_RECVFROM only when no
\* receive of the call succeeded and all NATPMP_MAX_ATTEMPS attempts failed;
\* once a receive of the call has succeeded the result is never
\* NATPMP_ERR_RECVFROM, whatever the bytes.
C11_RecvFromOnlyWhenExhausted ==
    /\ (ReadReturned /\ result = Err("NATPMP_ERR_RECVFROM")) =>
          /\ ~recvOk
          /\ received = << >>
          /\ retries = NATPMP_MAX_ATTEMPS
          /\ recvCalls = NATPMP_MAX_ATTEMPS
    /\ (op = "read_response_or_retry" /\ recvOk) =>
          result # Err("NATPMP_ERR_RECVFROM")

\* the call that ran out of attempts
C11_Witness ==
    /\ ReadReturned
    /\ result = Err("NATPMP_ERR_RECVFROM")
    /\ retries = NATPMP_MAX_ATTEMPS
    /\ buf = Zeros(BufLen)
    /\ received = << >>

\* gateway(): &self.gateway
gateway_accessor == gateway

\* C12: whatever calls were made on a session and however they ended,
\* gateway() is the address the session was constructed with.
C12_GatewayFixed ==
    (pc \in { "idle", "recv", "done", "cancelled" }) =>
        /\ gateway_accessor = configured
        /\ gateway_accessor \in Gateways

\* after a send, a read that ran out of attempts, and a read that returned a
\* public address other than the gateway's
C12_Witness ==
    /\ calls = 2
    /\ callerSends = 1
    /\ exhaustedCalls = 1
    /\ ReadReturned
    /\ result.tag = "Gateway"
    /\ result.public_address # gateway
    /\ gateway_accessor = configured

\* C13: the attempt counter of a read counts the failed receives of that call
\* only: it is the number of receives of the call that failed, below
\* NATPMP_MAX_ATTEMPS while the call is suspended in a receive, whatever
\* failed receives, exhausted calls and cancelled calls came before.
C13_CounterPerCall ==
    (op = "read_response_or_retry") =>
        /\ retries = recvCalls - (IF recvOk THEN 1 ELSE 0)
        /\ (pc = "recv" => retries < NATPMP_MAX_ATTEMPS)
        /\ (pc = "done" /\ ~recvOk => recvCalls = NATPMP_MAX_ATTEMPS)

\* a third read makes all its receives after an exhausted read and a read
\* that was cancelled after failed receives
C13_Witness ==
    /\ calls = 2
    /\ exhaustedCalls = 1
    /\ cancelledCalls = 1
    /\ priorFailures > 0
    /\ ReadReturned
    /\ ~recvOk
    /\ recvCalls = NATPMP_MAX_ATTEMPS

\* the mirror of the mapping request: what a receiver reads from the 12 bytes
MirrorDecode(w) ==
    [ protocol |-> IF w[2] = 1 THEN "UDP" ELSE IF w[2] = 2 THEN "TCP" ELSE "none",
      private_port |-> BE16(w, 4),
      public_port |-> BE16(w, 6),
      lifetime |-> BE32(w, 8) ]

\* C14: the mirror decoder recovers the arguments of send_port_mapping_request
\* from the bytes handed to the transport, and no other arguments give the
\* same bytes.
C14_MappingRequestLossless ==
    (pc = "done" /\ op = "send_port_mapping_request") =>
        /\ MirrorDecode(wire) = args
        /\ \A protocol \in Protocols, private_port \in Ports, public_port \in Ports,
              lifetime \in Lifetimes :
                PortMappingRequest(protocol, private_port, public_port, lifetime) = wire
                    => args = [ protocol |-> protocol, private_port |-> private_port,
                                public_port |-> public_port, lifetime |-> lifetime ]

\* a UDP request with the largest lifetime of the inputs
C14_Witness ==
    /\ pc = "done"
    /\ op = "send_port_mapping_request"
    /\ args = [ protocol |-> "UDP", private_port |-> 65535, public_port |-> 4660,
                lifetime |-> 2147483647 ]
    /\ MirrorDecode(wire) = args

Constructed == op \in { "new_async_std_natpmp", "new_async_std_natpmp_with" }

\* C15: a constructor fails with NATPMP_ERR_SOCKETERROR when bind fails and
\* with NATPMP_ERR_CONNECTERR when bind succeeds and connect fails, and
\* otherwise gives a session whose gateway() is the given address; connect is
\* invoked once, with the gateway and NATPMP_PORT, only after bind succeeded;
\* a failed gateway discovery is returned as it is, before any bind.
C15_Constructor ==
    Constructed =>
        /\ (answers.discovery = "err") =>
              /\ op = "new_async_std_natpmp"
              /\ pc = "failed"
              /\ result = Err("NATPMP_ERR_CANNOTGETGATEWAY")
              /\ bindCalls = 0
              /\ connectCalls = 0
        /\ (answers.discovery # "err") => bindCalls = 1
        /\ (answers.bind = "err") =>
              /\ pc = "failed"
              /\ result = Err("NATPMP_ERR_SOCKETERROR")
              /\ connectCalls = 0
        /\ (answers.bind = "ok") =>
              /\ connectCalls = 1
              /\ peer = [addr |-> configured, port |-> NATPMP_PORT]
        /\ (connectCalls > 0) => answers.bind = "ok"
        /\ (answers.bind = "ok" /\ answers.connect = "err") =>
              /\ pc = "failed"
              /\ result = Err("NATPMP_ERR_CONNECTERR")
        /\ (answers.bind = "ok" /\ answers.connect = "ok") =>
              /\ pc = "idle"
              /\ result = SessionOk
              /\ gateway_accessor = configured
        /\ (pc = "failed") => gateway = NoGateway

\* the socket was bound and the connect failed
C15_Witness ==
    /\ op = "new_async_std_natpmp_with"
    /\ pc = "failed"
    /\ answers = [discovery |-> "none", bind |-> "ok", connect |-> "err"]
    /\ result = Err("NATPMP_ERR_CONNECTERR")
    /\ bindCalls = 1
    /\ connectCalls = 1

\* C16: the transport's send is invoked once per send_* call of the caller
\* and never by read_response_or_retry, and connect is invoked by the
\* constructor only.
C16_ReadNeverSends ==
    /\ transportSends = callerSends
    /\ connectCalls <= 1
    /\ (op = "read_response_or_retry") => (sendCalls = 0 /\ wire = << >>)

\* a read that ran out of attempts after one request was sent
C16_Witness ==
    /\ ReadReturned
    /\ ~recvOk
    /\ recvCalls = NATPMP_MAX_ATTEMPS
    /\ lastReq = "UDP"
    /\ callerSends = 1
    /\ transportSends = 1
    /\ connectCalls = 1

\* the datagram followed by zeros up to the length of the receive buffer
Padded(d) == d \o Zeros(BufLen - Len(d))

\* C17: a datagram of any length 0..16 is decoded as if it were followed by
\* zeros, and ends the call: one of length 0 yields
\* NATPMP_ERR_UNSUPPORTEDOPCODE, one of length 1 that or
\* NATPMP_ERR_UNSUPPORTEDVERSION, a 12-byte mapping reply a mapping with
\* lifetime 0; no further receive is made.
C17_LengthNotChecked ==
    (op = "read_response_or_retry" /\ recvOk) =>
        /\ pc = "done"
        /\ recvCalls = retries + 1
        /\ Len(received) \in 0..BufLen
        /\ buf = Padded(received)
        /\ result = Decode(Padded(received), littleEndian)
        /\ (Len(received) = 0) => result = Err("NATPMP_ERR_UNSUPPORTEDOPCODE")
        /\ (Len(received) = 1) =>
              result = IF received[1] # 0
                       THEN Err("NATPMP_ERR_UNSUPPORTEDVERSION")
                       ELSE Err("NATPMP_ERR_UNSUPPORTEDOPCODE")
        /\ (/\ Len(received) = 12
            /\ received[1] = 0
            /\ received[2] \in { 129, 130 }
            /\ BE16(received, 2) = 0) =>
              result = [ tag |-> IF received[2] = 129 THEN "UDP" ELSE "TCP",
                         epoch |-> BE32(received, 4),
                         private_port |-> BE16(received, 8),
                         public_port |-> BE16(received, 10),
                         lifetime |-> [secs |-> 0, nanos |-> 0] ]

\* a 12-byte UDP mapping reply
C17_Witness ==
    /\ ReadReturned
    /\ recvOk
    /\ received = <<0, 129, 0, 0, 1, 2, 3, 4, 5, 6, 7, 8>>
    /\ result.tag = "UDP"
    /\ result.lifetime = [secs |-> 0, nanos |-> 0]

\* C18: the result of a read is decided by the received bytes alone: whatever
\* request was sent last, or none, a well-formed reply with opcode 128, 129 or
\* 130 is returned as a Gateway, UDP or TCP response.
C18_ReplyNotMatched ==
    (ReadReturned /\ recvOk) =>
        /\ result = Decode(Fill(Zeros(BufLen), received), littleEndian)
        /\ (Len(received) >= 4 /\ received[1] = 0 /\ BE16(received, 2) = 0) =>
              /\ (received[2] = 128 => result.tag = "Gateway")
              /\ (received[2] = 129 => result.tag = "UDP")
              /\ (received[2] = 130 => result.tag = "TCP")

\* a UDP mapping reply returned after a public-address request
C18_Witness ==
    /\ ReadReturned
    /\ recvOk
    /\ lastReq = "public_address"
    /\ Len(received) = BufLen
    /\ received[2] = 129
    /\ result.tag = "UDP"

====
